---------------------------- MODULE Spec2Model ----------------------------
(***************************************************************************)
(* Word document merger (wordMerger.js, templateApplier part of            *)
(* wordMerger.js, tableHandler.js, index.js).                              *)
(*                                                                         *)
(* XML text is modelled as a sequence of tokens: one token per tag and one *)
(* per character of text content.  The regular expressions and the         *)
(* String.prototype.replace calls of the source are modelled on token      *)
(* sequences: a lazy  OPEN[\s\S]*?CLOSE  is "first OPEN, then the first    *)
(* CLOSE after it", a tag prefix such as  <w:tr  or  <w:p  is the set of   *)
(* tokens of the alphabet that start with it, replace(string, string) is   *)
(* "replace the first occurrence".  No token of the alphabet holds a '$',  *)
(* so no replacement string carries a substitution pattern.                *)
(***************************************************************************)
EXTENDS Integers, Sequences, FiniteSets, TLC

VARIABLES
    docIn,      \* word/document.xml handed to the Table Numberer
    docPrev,    \* word/document.xml before the latest numbering pass
    docOut,     \* word/document.xml after the latest numbering pass
    passes,     \* how many times processTablesInDocument ran on the file
    numLog,     \* rows for which the latest pass consumed a serial number
    templateZip,    \* applyTemplate: the template package, path -> content
    mergedZip,      \* applyTemplate: the combined package, path -> content
    mergedBefore,   \* the combined package before the latest step
    tplPc,          \* applyTemplate: the step that ran last
    templateExists, \* service: sample/template.docx is on disk
    fs,             \* service: the files under uploads/, path -> content
    hasFiles,       \* service: per request, whether documents were uploaded
    fault,          \* service: per request, the stage that throws (or none)
    pc,             \* service: per request, where its handler stands
    buf,            \* service: per request, the buffer its pipeline holds
    download,       \* service: per request, the content sent to the client
    response,       \* service: per request, the HTTP status sent
    timer           \* service: per request, the delayed cleanup of the output

numVars == <<docIn, docPrev, docOut, passes, numLog>>

tplVars == <<templateZip, mergedZip, mergedBefore, tplPc>>

svcVars == <<templateExists, fs, hasFiles, fault, pc, buf, download,
             response, timer>>

vars == <<docIn, docPrev, docOut, passes, numLog,
          templateZip, mergedZip, mergedBefore, tplPc,
          templateExists, fs, hasFiles, fault, pc, buf, download,
          response, timer>>

---------------------------------------------------------------------------
(* Bounds of the model *)

MaxRows == 5        \* rows of the table of a one-table document
MaxRowsTwo == 2     \* rows per table of a two-table document
MaxPasses == 2      \* numbering passes over the same file
MaxBlocks == 3      \* blocks in the body of a combined document
MaxTplSect == 2     \* section-properties blocks in the template's body
NumRequests == 2    \* /merge requests in flight in the service

---------------------------------------------------------------------------
(* Strings as token sequences *)

Min(S) == CHOOSE x \in S : \A y \in S : x <= y

\* s.indexOf(pat, from) on token sequences, 1-based; 0 when absent
IndexOfFrom(s, pat, from) ==
    LET hits == {i \in from..(Len(s) - Len(pat) + 1) :
                    SubSeq(s, i, i + Len(pat) - 1) = pat}
    IN IF hits = {} THEN 0 ELSE Min(hits)

IndexOf(s, pat) == IndexOfFrom(s, pat, 1)

\* s.replace(pat, rep) with a string pattern: the first occurrence only
ReplaceFirst(s, pat, rep) ==
    LET i == IndexOf(s, pat)
    IN IF i = 0 THEN s
       ELSE SubSeq(s, 1, i - 1) \o rep \o SubSeq(s, i + Len(pat), Len(s))

\* s.replace(/tok/g, '')
RECURSIVE RemoveAll(_, _)
RemoveAll(s, tok) ==
    IF s = <<>> THEN <<>>
    ELSE IF Head(s) = tok THEN RemoveAll(Tail(s), tok)
    ELSE <<Head(s)>> \o RemoveAll(Tail(s), tok)

\* (s.match(/tok/g) || []).length
CountTok(s, tok) == Cardinality({i \in 1..Len(s) : s[i] = tok})

\* first match of /OPEN[\s\S]*?CLOSE/ at or after from: <<first, last>> or <<0, 0>>
LazyMatchFrom(s, Open, close, from) ==
    LET opens == {i \in from..Len(s) : s[i] \in Open}
    IN IF opens = {} THEN <<0, 0>>
       ELSE LET i == Min(opens)
                closes == {j \in (i + 1)..Len(s) : s[j] = close}
            IN IF closes = {} THEN <<0, 0>> ELSE <<i, Min(closes)>>

LazyMatch(s, Open, close) == LazyMatchFrom(s, Open, close, 1)

\* s.match(/OPEN[\s\S]*?CLOSE/g): the matched substrings, in order
RECURSIVE MatchAllFrom(_, _, _, _)
MatchAllFrom(s, Open, close, from) ==
    LET m == LazyMatchFrom(s, Open, close, from)
    IN IF m[1] = 0 THEN <<>>
       ELSE <<SubSeq(s, m[1], m[2])>> \o MatchAllFrom(s, Open, close, m[2] + 1)

MatchAll(s, Open, close) == MatchAllFrom(s, Open, close, 1)

Digits == <<"0", "1", "2", "3", "4", "5", "6", "7", "8", "9">>

\* `${serialNumber}`: the decimal digits of n
RECURSIVE Dec(_)
Dec(n) == IF n < 10 THEN <<Digits[n + 1]>>
          ELSE Dec(n \div 10) \o <<Digits[(n % 10) + 1]>>

---------------------------------------------------------------------------
(* tableHandler.js *)

REF_NUMBER_ADDED == "<REF_NUMBER_ADDED>"

\* tokens of the alphabet that the prefix <w:tr matches
TrOpen == {"<w:tr>", "<w:trPr/>"}
\* tokens of the alphabet that the prefix <w:p matches
POpen == {"<w:p>", "<w:pPr>", "<w:p w:rsidR=\"1\">"}

\* <w:p><w:r><w:t>${serialNumber}</w:t></w:r></w:p><REF_NUMBER_ADDED>
NumberedParagraph(serialNumber) ==
    <<"<w:p>", "<w:r>", "<w:t>">> \o Dec(serialNumber)
        \o <<"</w:t>", "</w:r>", "</w:p>", REF_NUMBER_ADDED>>

processRowFirstCell(rowXml, serialNumber) ==
    LET cellMatch == LazyMatch(rowXml, {"<w:tc>"}, "</w:tc>")
    IN IF cellMatch[1] = 0 THEN rowXml
       ELSE
        LET cell == SubSeq(rowXml, cellMatch[1], cellMatch[2])
            paragraphMatch == LazyMatch(cell, POpen, "</w:p>")
        IN IF paragraphMatch[1] = 0
           THEN \* /<w:tc>([\s\S]*?)/ matches <w:tc> with an empty group
                LET newCell == <<"<w:tc>">> \o NumberedParagraph(serialNumber)
                                   \o Tail(cell)
                IN ReplaceFirst(rowXml, cell, newCell)
           ELSE
            LET paragraph == SubSeq(cell, paragraphMatch[1], paragraphMatch[2])
                pPrMatch == LazyMatch(paragraph, {"<w:pPr>"}, "</w:pPr>")
                pPr == SubSeq(paragraph, pPrMatch[1], pPrMatch[2])
                newParagraph ==
                    IF pPrMatch[1] # 0
                    THEN \* the pattern is the string  pPr + '[sS]*?</w:p>',
                         \* not a regular expression
                         ReplaceFirst(paragraph,
                            pPr \o <<"[", "s", "S", "]", "*", "?", "</w:p>">>,
                            pPr \o <<"<w:r>", "<w:t>">> \o Dec(serialNumber)
                                \o <<"</w:t>", "</w:r>", "</w:p>",
                                     REF_NUMBER_ADDED>>)
                    ELSE NumberedParagraph(serialNumber)
                newCell == ReplaceFirst(cell, paragraph, newParagraph)
            IN ReplaceFirst(rowXml, cell, newCell)

\* rows 1, 5, 9, ... of a table
IsHeaderRow(rowNumber) ==
    rowNumber = 1 \/ (rowNumber % 4 = 1 /\ rowNumber > 1)

\* the loop of processTable from rowIndex on; st = [xml, serialNumber, log]
RECURSIVE processRows(_, _, _, _)
processRows(rows, rowNumber, tableIndex, st) ==
    IF rowNumber > Len(rows) THEN st
    ELSE IF IsHeaderRow(rowNumber)
    THEN processRows(rows, rowNumber + 1, tableIndex, st)
    ELSE LET row == rows[rowNumber]
             processedRow == processRowFirstCell(row, st.serialNumber)
         IN IF processedRow # row
            THEN processRows(rows, rowNumber + 1, tableIndex,
                    [xml |-> ReplaceFirst(st.xml, row, processedRow),
                     serialNumber |-> st.serialNumber + 1,
                     log |-> Append(st.log,
                                [table |-> tableIndex, row |-> rowNumber,
                                 n |-> st.serialNumber])])
            ELSE processRows(rows, rowNumber + 1, tableIndex, st)

\* [xml |-> the processed table, log |-> the rows that consumed a number]
processTable(tableXml, tableIndex, startSerialNumber) ==
    LET rows == MatchAll(tableXml, TrOpen, "</w:tr>")
        st == processRows(rows, 1, tableIndex,
                [xml |-> tableXml, serialNumber |-> startSerialNumber,
                 log |-> <<>>])
    IN IF rows = <<>> THEN [xml |-> tableXml, log |-> <<>>]
       ELSE [xml |-> st.xml, log |-> st.log]

\* the loop of processTableReferences from table i on
RECURSIVE processTables(_, _, _)
processTables(tables, i, st) ==
    IF i > Len(tables) THEN st
    ELSE LET originalTable == tables[i]
             processed == processTable(originalTable, i, st.serialNumber)
             processedRows == CountTok(processed.xml, REF_NUMBER_ADDED)
         IN processTables(tables, i + 1,
                [xml |-> ReplaceFirst(st.xml, originalTable,
                            RemoveAll(processed.xml, REF_NUMBER_ADDED)),
                 serialNumber |-> st.serialNumber + processedRows,
                 log |-> st.log \o processed.log])

processTableReferences(docXml, startNumber) ==
    LET tables == MatchAll(docXml, {"<w:tbl>"}, "</w:tbl>")
    IN IF tables = <<>>
       THEN [xml |-> docXml, serialNumber |-> startNumber, log |-> <<>>]
       ELSE processTables(tables, 1,
                [xml |-> docXml, serialNumber |-> startNumber, log |-> <<>>])

---------------------------------------------------------------------------
(* Documents handed to the Table Numberer *)

TextParagraph(c) == <<"<w:p>", "<w:r>", "<w:t>", c, "</w:t>", "</w:r>", "</w:p>">>

\* a row by the shape of its first cell
RowKinds == {"text", "one", "attr", "pPr", "noPara"}

RowOf(kind) ==
    CASE kind = "text" ->
            <<"<w:tr>", "<w:tc>">> \o TextParagraph("a") \o <<"</w:tc>", "</w:tr>">>
      [] kind = "one" ->
            <<"<w:tr>", "<w:tc>">> \o TextParagraph("1") \o <<"</w:tc>", "</w:tr>">>
      [] kind = "attr" ->
            <<"<w:tr>", "<w:trPr/>", "<w:tc>", "<w:p w:rsidR=\"1\">", "<w:r>",
              "<w:t>", "b", "</w:t>", "</w:r>", "</w:p>", "</w:tc>", "</w:tr>">>
      [] kind = "pPr" ->
            <<"<w:tr>", "<w:tc>", "<w:p>", "<w:pPr>", "<w:jc/>", "</w:pPr>",
              "<w:r>", "<w:t>", "a", "</w:t>", "</w:r>", "</w:p>",
              "</w:tc>", "</w:tr>">>
      [] kind = "noPara" ->
            <<"<w:tr>", "<w:tc>", "<w:tcPr/>", "</w:tc>", "<w:tc>">>
                \o TextParagraph("x") \o <<"</w:tc>", "</w:tr>">>

RECURSIVE Concat(_)
Concat(ss) == IF ss = <<>> THEN <<>> ELSE Head(ss) \o Concat(Tail(ss))

TableOf(kinds) ==
    <<"<w:tbl>", "<w:tblPr/>">>
        \o Concat([k \in 1..Len(kinds) |-> RowOf(kinds[k])])
        \o <<"</w:tbl>">>

DocOf(tbls) ==
    <<"<w:body>">> \o Concat([t \in 1..Len(tbls) |-> TableOf(tbls[t])])
        \o <<"</w:body>">>

KindSeqs(n) == UNION {[1..m -> RowKinds] : m \in 1..n}

NumberDocs ==
    {DocOf(<<t>>) : t \in KindSeqs(MaxRows)}
        \cup {DocOf(<<t1, t2>>) : t1 \in KindSeqs(MaxRowsTwo),
                                  t2 \in KindSeqs(MaxRowsTwo)}

---------------------------------------------------------------------------
(* Table Numberer as a state machine *)

\* the Template Applier at rest
TplIdle ==
    /\ templateZip = <<>>
    /\ mergedZip = <<>>
    /\ mergedBefore = <<>>
    /\ tplPc = "idle"

\* the service with no request
SvcIdle ==
    /\ templateExists = TRUE
    /\ fs = <<>>
    /\ hasFiles = <<>>
    /\ fault = <<>>
    /\ pc = <<>>
    /\ buf = <<>>
    /\ download = <<>>
    /\ response = <<>>
    /\ timer = <<>>

InitNum ==
    /\ TplIdle
    /\ SvcIdle
    /\ docIn \in NumberDocs
    /\ docPrev = docIn
    /\ docOut = docIn
    /\ passes = 0
    /\ numLog = <<>>

\* processTablesInDocument(outputPath): read, number from 1, write back
processTablesInDocument ==
    /\ passes < MaxPasses
    /\ \E r \in {processTableReferences(docOut, 1)} :
          /\ docOut' = r.xml
          /\ numLog' = r.log
    /\ docPrev' = docOut
    /\ passes' = passes + 1
    /\ UNCHANGED <<docIn, tplVars, svcVars>>

NextNum == processTablesInDocument

SpecNum == InitNum /\ [][NextNum]_vars

---------------------------------------------------------------------------
(* Reading a numbered document *)

TablesOf(doc) == MatchAll(doc, {"<w:tbl>"}, "</w:tbl>")
RowsOf(table) == MatchAll(table, TrOpen, "</w:tr>")

\* row p of table t of doc, <<>> when there is none
RowAt(doc, t, p) ==
    IF t > Len(TablesOf(doc)) THEN <<>>
    ELSE LET rs == RowsOf(TablesOf(doc)[t])
         IN IF p > Len(rs) THEN <<>> ELSE rs[p]

\* the first paragraph of the first cell of a row, <<>> when there is none
FirstParagraph(row) ==
    LET c == LazyMatch(row, {"<w:tc>"}, "</w:tc>")
        cell == SubSeq(row, c[1], c[2])
        m == LazyMatch(cell, POpen, "</w:p>")
    IN IF c[1] = 0 \/ m[1] = 0 THEN <<>> ELSE SubSeq(cell, m[1], m[2])

\* the w:pPr block of a paragraph, <<>> when there is none
PPrOf(paragraph) ==
    LET m == LazyMatch(paragraph, {"<w:pPr>"}, "</w:pPr>")
    IN IF m[1] = 0 THEN <<>> ELSE SubSeq(paragraph, m[1], m[2])

\* what a paragraph holds between its w:pPr block (if any) and </w:p>
RunContent(paragraph) ==
    LET m == LazyMatch(paragraph, {"<w:pPr>"}, "</w:pPr>")
    IN IF paragraph = <<>> THEN <<>>
       ELSE IF m[1] = 0 THEN SubSeq(paragraph, 2, Len(paragraph) - 1)
       ELSE SubSeq(paragraph, m[2] + 1, Len(paragraph) - 1)

NumberRun(n) == <<"<w:r>", "<w:t>">> \o Dec(n) \o <<"</w:t>", "</w:r>">>

\* the rows of table t for which the latest pass consumed a serial number
CreditedRows(t) ==
    {numLog[k].row : k \in {j \in 1..Len(numLog) : numLog[j].table = t}}

\* no two rows of one table have the same text
NoRepeatedRows(doc) ==
    \A t \in 1..Len(TablesOf(doc)) :
        LET rs == RowsOf(TablesOf(doc)[t])
        IN \A p, q \in 1..Len(rs) : p # q => rs[p] # rs[q]

---------------------------------------------------------------------------
(* Claims about the Table Numberer, checked under SpecNum *)

\* C1: header-skip law.  After one pass over a document, in every table
\* with R rows the rows that received a serial number are exactly the
\* positions of 1..R that are not 1, 5, 9, ...
C1_HeaderSkipLaw ==
    passes = 1 =>
        \A t \in 1..Len(TablesOf(docPrev)) :
            CreditedRows(t) =
                {p \in 1..Len(RowsOf(TablesOf(docPrev)[t])) : p % 4 # 1}

\* C2: global counter.  After one pass, the k-th row to receive a number,
\* counted through the tables in document order, shows the number k: the
\* sequence starts at 1 and runs on across table boundaries.  Stated for
\* documents whose tables have no two textually equal rows, so that only
\* the table boundary is in question.
C2_GlobalCounter ==
    (passes = 1 /\ NoRepeatedRows(docPrev)) =>
        \A k \in 1..Len(numLog) :
            RunContent(FirstParagraph(
                RowAt(docOut, numLog[k].table, numLog[k].row))) = NumberRun(k)

\* C3: cell-write rule.  After one pass, every data row whose first cell
\* had a paragraph holds, as the run content of that paragraph, the decimal
\* serial number assigned to the row, and the paragraph's w:pPr block (if it
\* had one) is still there unchanged.  Stated for documents whose tables
\* have no two textually equal rows.
C3_CellWriteRule ==
    (passes = 1 /\ NoRepeatedRows(docPrev)) =>
        \A t \in 1..Len(TablesOf(docPrev)) :
            \A p \in 1..Len(RowsOf(TablesOf(docPrev)[t])) :
                LET before == FirstParagraph(RowAt(docPrev, t, p))
                    after == FirstParagraph(RowAt(docOut, t, p))
                IN (~IsHeaderRow(p) /\ before # <<>>) =>
                      /\ \E k \in 1..Len(numLog) :
                            /\ numLog[k].table = t
                            /\ numLog[k].row = p
                            /\ RunContent(after) = NumberRun(numLog[k].n)
                      /\ PPrOf(after) = PPrOf(before)

\* C4: header rows are skipped entirely.  After one pass, every row at a
\* header position has the content it had before and consumed no number.
C4_HeaderRowsUntouched ==
    passes = 1 =>
        \A t \in 1..Len(TablesOf(docPrev)) :
            \A p \in 1..Len(RowsOf(TablesOf(docPrev)[t])) :
                IsHeaderRow(p) =>
                    /\ RowAt(docOut, t, p) = RowAt(docPrev, t, p)
                    /\ p \notin CreditedRows(t)

\* C5: idempotence of numbering.  A second pass over the output of the
\* first leaves the document as the first pass wrote it.
C5_NumberingIdempotent ==
    passes = 2 => docOut = docPrev

---------------------------------------------------------------------------
(* templateApplier (wordMerger.js lines 118-433) *)

\* A package is a function from part paths to contents.  The content of a
\* markup part is a token sequence; null and the empty string, which the
\* code tells apart nowhere (it tests !content), are both <<>>.
DOCUMENT_XML == "word/document.xml"
DOCUMENT_RELS == "word/_rels/document.xml.rels"

\* the paths of the alphabet that start with word/header or word/footer
HeaderFooterPaths == {"word/header1.xml", "word/footer1.xml"}

filesToPreserve ==
    <<"word/settings.xml", "word/styles.xml", "word/fontTable.xml",
      "word/theme/theme1.xml", "[Content_Types].xml">>

getZipEntryText(zip, path) == IF path \in DOMAIN zip THEN zip[path] ELSE <<>>

\* zip.file(path, content)
PutFile(zip, path, content) ==
    [q \in (DOMAIN zip) \cup {path} |-> IF q = path THEN content ELSE zip[q]]

copyHeaderFooterFiles(tZip, mZip) ==
    LET headerFooterFiles == {q \in DOMAIN tZip : q \in HeaderFooterPaths}
    IN [q \in (DOMAIN mZip) \cup headerFooterFiles |->
            IF q \in headerFooterFiles THEN tZip[q] ELSE mZip[q]]

\* tokens of a relationships part
RelsOpen == [tag |-> "<Relationships>", id |-> "", target |-> ""]
RelsClose == [tag |-> "</Relationships>", id |-> "", target |-> ""]
Rel(id, target) == [tag |-> "<Relationship/>", id |-> id, target |-> target]

\* Target="(?:header|footer)\d+\.xml" among the targets of the alphabet
HeaderFooterTargets == {"header1.xml", "footer1.xml"}

\* templateRels.match(headerFooterRegex) || [], joined
RECURSIVE headerFooterRelsOf(_)
headerFooterRelsOf(rels) ==
    IF rels = <<>> THEN <<>>
    ELSE IF Head(rels).tag = "<Relationship/>"
            /\ Head(rels).target \in HeaderFooterTargets
         THEN <<Head(rels)>> \o headerFooterRelsOf(Tail(rels))
         ELSE headerFooterRelsOf(Tail(rels))

preserveRelationships(tZip, mZip) ==
    LET templateRels == getZipEntryText(tZip, DOCUMENT_RELS)
        mergedRels == getZipEntryText(mZip, DOCUMENT_RELS)
        headerFooterRels == headerFooterRelsOf(templateRels)
    IN IF templateRels = <<>> \/ mergedRels = <<>> THEN mZip
       ELSE IF Len(headerFooterRels) > 0
       THEN PutFile(mZip, DOCUMENT_RELS,
                ReplaceFirst(mergedRels, <<RelsClose>>,
                             headerFooterRels \o <<RelsClose>>))
       ELSE mZip

\* the other way a merge of two style parts could go: the document's styles
mergeStylesFromDocument(templateStyles, documentStyles) == documentStyles

mergeStyles(templateStyles, documentStyles) == templateStyles

\* the loop of preserveStyles from file i on
RECURSIVE preserveFiles(_, _, _)
preserveFiles(tZip, mZip, i) ==
    IF i > Len(filesToPreserve) THEN mZip
    ELSE LET filePath == filesToPreserve[i]
             templateContent == getZipEntryText(tZip, filePath)
             mergedContent == getZipEntryText(mZip, filePath)
         IN IF templateContent = <<>> \/ mergedContent = <<>>
            THEN preserveFiles(tZip, mZip, i + 1)
            ELSE IF filePath \in {"word/theme/theme1.xml", "word/fontTable.xml"}
            THEN preserveFiles(tZip, PutFile(mZip, filePath, templateContent),
                               i + 1)
            ELSE IF filePath = "word/styles.xml"
            THEN preserveFiles(tZip,
                    PutFile(mZip, filePath,
                            mergeStyles(templateContent, mergedContent)),
                    i + 1)
            ELSE preserveFiles(tZip, mZip, i + 1)

preserveStyles(tZip, mZip) ==
    preserveFiles(tZip, preserveRelationships(tZip, mZip), 1)

\* tokens of the alphabet that  <w:sectPr[^>]*>  matches
SectPrOpen == {"<w:sectPr>", "<w:sectPr w:rsidR=\"1\">", "<w:sectPr/>"}

sectPrsOf(doc) == MatchAll(doc, SectPrOpen, "</w:sectPr>")

\* the template's main section properties: the last block
mainSectPrOf(templateSectPrs) == templateSectPrs[Len(templateSectPrs)]

\* for (const sectPr of mergedSectPrs) mergedDoc = mergedDoc.replace(...)
RECURSIVE replaceSectPrs(_, _, _, _)
replaceSectPrs(mergedDoc, mergedSectPrs, i, mainSectPr) ==
    IF i > Len(mergedSectPrs) THEN mergedDoc
    ELSE replaceSectPrs(ReplaceFirst(mergedDoc, mergedSectPrs[i], mainSectPr),
                        mergedSectPrs, i + 1, mainSectPr)

updateDocumentReferences(tZip, mZip) ==
    LET templateDoc == getZipEntryText(tZip, DOCUMENT_XML)
        mergedDoc == getZipEntryText(mZip, DOCUMENT_XML)
        templateSectPrs == sectPrsOf(templateDoc)
        mainSectPr == mainSectPrOf(templateSectPrs)
        mergedSectPrs == sectPrsOf(mergedDoc)
    IN IF templateDoc = <<>> \/ mergedDoc = <<>> THEN mZip
       ELSE IF templateSectPrs = <<>> THEN mZip
       ELSE IF mergedSectPrs = <<>>
       THEN PutFile(mZip, DOCUMENT_XML,
                ReplaceFirst(mergedDoc, <<"</w:body>">>,
                             mainSectPr \o <<"</w:body>">>))
       ELSE PutFile(mZip, DOCUMENT_XML,
                replaceSectPrs(mergedDoc, mergedSectPrs, 1, mainSectPr))

PAGE_BREAK == "<w:br w:type=\"page\"/>"

\* first index after from where tok stands, 0 when there is none (and
\* when from is 0: an earlier part of the pattern did not match)
NextTok(s, tok, from) ==
    LET hits == {i \in (from + 1)..Len(s) : s[i] = tok}
    IN IF from = 0 \/ hits = {} THEN 0 ELSE Min(hits)

\* docXml.match(blankFirstPageRegex): <<first, last>> or <<0, 0>>.  Every
\* [\s\S]*? runs over anything, tags and paragraph ends included, so the
\* match is <w:body>, then the first <w:p> after it, then the first <w:r>
\* after that, then the first page break, then </w:r>, then </w:p>.
blankFirstPageMatch(docXml) ==
    LET bodyAt == IndexOf(docXml, <<"<w:body>">>)
        pAt == NextTok(docXml, "<w:p>", bodyAt)
        rAt == NextTok(docXml, "<w:r>", pAt)
        brAt == NextTok(docXml, PAGE_BREAK, rAt)
        rEnd == NextTok(docXml, "</w:r>", brAt)
        pEnd == NextTok(docXml, "</w:p>", rEnd)
    IN IF pEnd = 0 THEN <<0, 0>> ELSE <<bodyAt, pEnd>>

removeBlankFirstPage(mZip) ==
    LET docXml == getZipEntryText(mZip, DOCUMENT_XML)
        match == blankFirstPageMatch(docXml)
    IN IF docXml = <<>> THEN mZip
       ELSE IF match[1] # 0
       THEN PutFile(mZip, DOCUMENT_XML,
                ReplaceFirst(docXml, SubSeq(docXml, match[1], match[2]),
                             <<"<w:body>">>))
       ELSE mZip

---------------------------------------------------------------------------
(* Packages handed to the Template Applier *)

Document(blocks) ==
    <<"<w:document>", "<w:body>">> \o Concat(blocks)
        \o <<"</w:body>", "</w:document>">>

\* the blocks a combined body is made of
BlockKinds ==
    {"text", "attr", "break", "sectPara", "sectEmpty", "sectA", "sectB"}

\* section properties as written in bodies; the template's are among them
SectA == <<"<w:sectPr>", "<w:headerReference/>", "<w:pgMar/>", "</w:sectPr>">>
SectB == <<"<w:sectPr w:rsidR=\"1\">", "<w:pgSz/>", "</w:sectPr>">>

BlockOf(kind) ==
    CASE kind = "text" -> TextParagraph("a")
      [] kind = "attr" ->
            <<"<w:p w:rsidR=\"1\">", "<w:r>", "<w:t>", "b", "</w:t>", "</w:r>",
              "</w:p>">>
      [] kind = "break" -> <<"<w:p>", "<w:r>", PAGE_BREAK, "</w:r>", "</w:p>">>
      [] kind = "sectPara" ->
            <<"<w:p>", "<w:pPr>", "<w:sectPr>", "<w:type/>", "</w:sectPr>",
              "</w:pPr>", "</w:p>">>
      [] kind = "sectEmpty" ->
            <<"<w:p>", "<w:pPr>", "<w:sectPr/>", "</w:pPr>", "</w:p>">>
      [] kind = "sectA" -> SectA
      [] kind = "sectB" -> SectB

MergedDocs ==
    {Document([k \in 1..Len(ks) |-> BlockOf(ks[k])]) :
        ks \in UNION {[1..m -> BlockKinds] : m \in 0..MaxBlocks}}

TemplateDocs ==
    {Document(<<TextParagraph("t")>> \o [k \in 1..Len(ks) |-> BlockOf(ks[k])]) :
        ks \in UNION {[1..m -> {"sectA", "sectB"}] : m \in 0..MaxTplSect}}

\* relationship parts: up to two entries with distinct ids
RelIds == {"rId1", "rId2"}
RelTargets == {"styles.xml", "header1.xml", "footer1.xml"}
RelEntries == {Rel(i, t) : i \in RelIds, t \in RelTargets}
RelLists ==
    {<<>>} \cup {<<e>> : e \in RelEntries}
        \cup {p \in {<<e, f>> : e \in RelEntries, f \in RelEntries} :
                p[1].id # p[2].id}
RelsParts == {<<RelsOpen>> \o es \o <<RelsClose>> : es \in RelLists}

StylePaths == {filesToPreserve[i] : i \in 1..Len(filesToPreserve)}

\* a package with the given parts; a part other than the document and the
\* relationships holds one token naming the package it comes from
Package(origin, paths, doc, rels) ==
    [q \in paths \cup (IF doc = <<>> THEN {} ELSE {DOCUMENT_XML})
                 \cup (IF rels = <<>> THEN {} ELSE {DOCUMENT_RELS}) |->
        IF q = DOCUMENT_XML THEN doc
        ELSE IF q = DOCUMENT_RELS THEN rels
        ELSE <<origin>>]

DefaultTemplateDoc == Document(<<TextParagraph("t"), SectA>>)
DefaultMergedDoc == Document(<<TextParagraph("a"), SectB>>)
DefaultTemplateRels ==
    <<RelsOpen, Rel("rId1", "styles.xml"), Rel("rId2", "header1.xml"), RelsClose>>
DefaultMergedRels == <<RelsOpen, Rel("rId1", "styles.xml"), RelsClose>>

\* the template and the combined package applyTemplate loads: one of the
\* documents, the relationship parts, or the other parts varies at a time
TemplateInputs ==
    {<<Package("template", HeaderFooterPaths \cup StylePaths, t, DefaultTemplateRels),
       Package("merged", StylePaths, m, DefaultMergedRels)>> :
        t \in TemplateDocs \cup {<<>>}, m \in MergedDocs \cup {<<>>}}
    \cup
    {<<Package("template", HeaderFooterPaths \cup StylePaths, DefaultTemplateDoc, t),
       Package("merged", StylePaths, DefaultMergedDoc, m)>> :
        t \in RelsParts \cup {<<>>}, m \in RelsParts \cup {<<>>}}
    \cup
    {<<Package("template", t, DefaultTemplateDoc, DefaultTemplateRels),
       Package("merged", m, DefaultMergedDoc, DefaultMergedRels)>> :
        t \in SUBSET (HeaderFooterPaths \cup StylePaths),
        m \in SUBSET (HeaderFooterPaths \cup StylePaths)}

---------------------------------------------------------------------------
(* applyTemplate as a state machine: one action per step it awaits *)

\* the Table Numberer at rest
NumIdle ==
    /\ docIn = <<>>
    /\ docPrev = <<>>
    /\ docOut = <<>>
    /\ passes = 0
    /\ numLog = <<>>

InitTpl ==
    /\ NumIdle
    /\ SvcIdle
    /\ \E in \in TemplateInputs :
        /\ templateZip = in[1]
        /\ mergedZip = in[2]
        /\ mergedBefore = in[2]
    /\ tplPc = "loaded"

TplStep(from, to, result) ==
    /\ tplPc = from
    /\ tplPc' = to
    /\ mergedBefore' = mergedZip
    /\ mergedZip' = result
    /\ UNCHANGED <<templateZip, numVars, svcVars>>

StepCopyHeaderFooterFiles ==
    TplStep("loaded", "headers", copyHeaderFooterFiles(templateZip, mergedZip))

StepPreserveStyles ==
    TplStep("headers", "styles", preserveStyles(templateZip, mergedZip))

StepUpdateDocumentReferences ==
    TplStep("styles", "refs", updateDocumentReferences(templateZip, mergedZip))

StepRemoveBlankFirstPage ==
    TplStep("refs", "blank", removeBlankFirstPage(mergedZip))

\* generateAsync and writeFileSync(outputPath, content)
StepWriteOutput ==
    TplStep("blank", "written", mergedZip)

NextTpl ==
    \/ StepCopyHeaderFooterFiles
    \/ StepPreserveStyles
    \/ StepUpdateDocumentReferences
    \/ StepRemoveBlankFirstPage
    \/ StepWriteOutput

SpecTpl == InitTpl /\ [][NextTpl]_vars

---------------------------------------------------------------------------
(* Claims about the Template Applier, checked under SpecTpl *)

\* the section-properties blocks of a document: an empty element is a
\* block by itself, another runs from its opening tag to the closing tag
\* that follows it
SectPrEnd(doc, i) ==
    IF doc[i] = "<w:sectPr/>" THEN i
    ELSE Min({j \in i..Len(doc) : doc[j] = "</w:sectPr>"} \cup {Len(doc)})

SectPrStarts(doc) ==
    {i \in 1..Len(doc) :
        doc[i] \in {"<w:sectPr>", "<w:sectPr w:rsidR=\"1\">", "<w:sectPr/>"}}

SectPrBlocks(doc) ==
    {SubSeq(doc, i, SectPrEnd(doc, i)) : i \in SectPrStarts(doc)}

\* the last section-properties block of a document that has one
LastSectPrBlock(doc) ==
    LET last == CHOOSE i \in SectPrStarts(doc) :
                    \A j \in SectPrStarts(doc) : j <= i
    IN SubSeq(doc, last, SectPrEnd(doc, last))

\* doc with block put in right before position i
InsertedAt(doc, i, block) ==
    SubSeq(doc, 1, i - 1) \o block \o SubSeq(doc, i, Len(doc))

\* section-properties normalization ran on two documents, and the template
\* has a section-properties block
NormalizationRan ==
    /\ tplPc = "refs"
    /\ getZipEntryText(templateZip, DOCUMENT_XML) # <<>>
    /\ getZipEntryText(mergedBefore, DOCUMENT_XML) # <<>>
    /\ SectPrBlocks(getZipEntryText(templateZip, DOCUMENT_XML)) # {}

\* C6: template authority.  After section-properties normalization every
\* section-properties block of the combined body is the template's last
\* block; a body that had none has the template's block exactly once, right
\* before </w:body>.
C6_TemplateAuthority ==
    NormalizationRan =>
        LET main == LastSectPrBlock(getZipEntryText(templateZip, DOCUMENT_XML))
            before == getZipEntryText(mergedBefore, DOCUMENT_XML)
            after == getZipEntryText(mergedZip, DOCUMENT_XML)
        IN /\ SectPrBlocks(after) = {main}
           /\ SectPrBlocks(before) = {} =>
                after = InsertedAt(before, IndexOf(before, <<"</w:body>">>), main)

\* the characters of text content, in document order
TextChars == {"a", "b", "t", "x"}
TextOf(doc) == SelectSeq(doc, LAMBDA tok : tok \in TextChars)

\* the first page break of the document comes after some text content
BreakAfterContent(doc) ==
    \E i \in 1..Len(doc) :
        /\ doc[i] = PAGE_BREAK
        /\ \A j \in 1..(i - 1) : doc[j] # PAGE_BREAK
        /\ \E j \in 1..(i - 1) : doc[j] \in TextChars

\* C7: leading-blank-page removal.  When the first page break of the body
\* is preceded by other content the step deletes nothing, and in every case
\* the text content of the body is still there after the step.
C7_OnlyLeadingBreakRemoved ==
    (tplPc = "blank" /\ getZipEntryText(mergedBefore, DOCUMENT_XML) # <<>>) =>
        LET before == getZipEntryText(mergedBefore, DOCUMENT_XML)
            after == getZipEntryText(mergedZip, DOCUMENT_XML)
        IN /\ BreakAfterContent(before) => after = before
           /\ TextOf(after) = TextOf(before)

\* the ids of the entries of a relationships part, with repetitions
RelEntriesOf(rels) == SelectSeq(rels, LAMBDA r : r.tag = "<Relationship/>")

UniqueIds(rels) ==
    LET es == RelEntriesOf(rels)
    IN \A i, j \in 1..Len(es) : i # j => es[i].id # es[j].id

\* C8: relationship repair.  After the step the combined relationship set
\* holds every header/footer entry of the template whose id was not there
\* before, and no id twice.
C8_RelationshipIdsUnique ==
    (/\ tplPc = "styles"
     /\ getZipEntryText(templateZip, DOCUMENT_RELS) # <<>>
     /\ getZipEntryText(mergedBefore, DOCUMENT_RELS) # <<>>) =>
        LET template == RelEntriesOf(getZipEntryText(templateZip, DOCUMENT_RELS))
            before == RelEntriesOf(getZipEntryText(mergedBefore, DOCUMENT_RELS))
            after == RelEntriesOf(getZipEntryText(mergedZip, DOCUMENT_RELS))
        IN /\ UniqueIds(getZipEntryText(mergedZip, DOCUMENT_RELS))
           /\ \A i \in 1..Len(template) :
                (/\ template[i].target \in HeaderFooterTargets
                 /\ \A j \in 1..Len(before) : before[j].id # template[i].id)
                    => \E j \in 1..Len(after) : after[j] = template[i]

\* C9: every step is idempotent.  In the state a step has just produced,
\* applying that step again with the same template changes nothing.
C9_StepsIdempotent ==
    /\ tplPc = "headers" =>
            copyHeaderFooterFiles(templateZip, mergedZip) = mergedZip
    /\ tplPc = "styles" =>
            /\ preserveRelationships(templateZip, mergedZip) = mergedZip
            /\ preserveFiles(templateZip, mergedZip, 1) = mergedZip
    /\ tplPc = "refs" =>
            updateDocumentReferences(templateZip, mergedZip) = mergedZip
    /\ tplPc = "blank" => removeBlankFirstPage(mergedZip) = mergedZip

---------------------------------------------------------------------------
(* The service: index.js app.post('/merge') over mergeDocuments             *)
(*                                                                         *)
(* A file's content is [owner, stage]: the request whose documents it was  *)
(* made from and how far the pipeline took it.  An action is one run of    *)
(* the handler between two points where it waits for real asynchronous     *)
(* work (zip generation or loading, the download stream, the timer); other *)
(* requests run in between.                                                *)

Requests == 1..NumRequests

Faults == {"none", "merge", "template", "number"}

NoFile == [owner |-> 0, stage |-> "none"]
Content(r, stage) == [owner |-> r, stage |-> stage]

\* path.join(__dirname, 'uploads', 'merged-document.docx') and + '.temp'
outputPath == "uploads/merged-document.docx"
tempOutputPath == "uploads/merged-document.docx.temp"
\* multer's uniqueSuffix names: one per request
uploadPath == [r \in Requests |-> Dec(r) \o <<".docx">>]

Paths == {<<outputPath>>, <<tempOutputPath>>}
            \cup {uploadPath[r] : r \in Requests}

\* fs.unlinkSync of each path that exists
cleanupFiles(files, filePaths) ==
    [q \in Paths |-> IF q \in filePaths THEN NoFile ELSE files[q]]

InitSvc ==
    /\ NumIdle
    /\ TplIdle
    /\ templateExists \in BOOLEAN
    /\ hasFiles \in [Requests -> BOOLEAN]
    /\ fault \in [Requests -> Faults]
    /\ fs = [q \in Paths |-> NoFile]
    /\ pc = [r \in Requests |-> "idle"]
    /\ buf = [r \in Requests |-> NoFile]
    /\ download = [r \in Requests |-> NoFile]
    /\ response = [r \in Requests |-> "none"]
    /\ timer = [r \in Requests |-> "off"]

SvcFrame == UNCHANGED <<numVars, tplVars, templateExists, hasFiles, fault>>

\* the handler's catch, or an error response: res.status(code).send(...)
Respond(r, code) ==
    /\ response' = [response EXCEPT ![r] = code]
    /\ pc' = [pc EXCEPT ![r] = "done"]

\* upload.array('documents', 10): multer stores the request's documents
Upload(r) ==
    /\ pc[r] = "idle"
    /\ pc' = [pc EXCEPT ![r] = "received"]
    /\ fs' = IF hasFiles[r]
             THEN [fs EXCEPT ![uploadPath[r]] = Content(r, "upload")]
             ELSE fs
    /\ UNCHANGED <<buf, download, response, timer>>
    /\ SvcFrame

\* the handler up to await mergeDocuments, and mergeDocuments up to
\* docxMerger.save: the checks, the reads and the merge of the documents
StartMerge(r) ==
    /\ pc[r] = "received"
    /\ IF ~hasFiles[r]
       THEN Respond(r, "400") /\ UNCHANGED buf
       ELSE IF ~templateExists \/ fs[uploadPath[r]] = NoFile
               \/ fault[r] = "merge"
       THEN Respond(r, "500") /\ UNCHANGED buf
       ELSE /\ buf' = [buf EXCEPT ![r] =
                        Content(fs[uploadPath[r]].owner, "merged")]
            /\ pc' = [pc EXCEPT ![r] = "saving"]
            /\ UNCHANGED response
    /\ UNCHANGED <<fs, download, timer>>
    /\ SvcFrame

\* the save callback: the merged buffer goes to the temporary file, and
\* applyTemplate reads the template and the temporary file back
WriteTemp(r) ==
    /\ pc[r] = "saving"
    /\ fs' = [fs EXCEPT ![<<tempOutputPath>>] = buf[r]]
    /\ buf' = [buf EXCEPT ![r] = fs'[<<tempOutputPath>>]]
    /\ pc' = [pc EXCEPT ![r] = "applying"]
    /\ UNCHANGED <<download, response, timer>>
    /\ SvcFrame

\* applyTemplate after its zip work: the output file is written, and
\* processTablesInDocument reads it back
WriteTemplated(r) ==
    /\ pc[r] = "applying"
    /\ IF fault[r] = "template"
       THEN Respond(r, "500") /\ UNCHANGED <<fs, buf>>
       ELSE /\ fs' = [fs EXCEPT ![<<outputPath>>] =
                        Content(buf[r].owner, "templated")]
            /\ buf' = [buf EXCEPT ![r] = fs'[<<outputPath>>]]
            /\ pc' = [pc EXCEPT ![r] = "numbering"]
            /\ UNCHANGED response
    /\ UNCHANGED <<download, timer>>
    /\ SvcFrame

\* a mergeDocuments that resolved without waiting for the numbered file
ResolveBeforeNumbering(r) ==
    /\ pc[r] = "numbering"
    /\ pc' = [pc EXCEPT ![r] = "sending"]
    /\ UNCHANGED <<fs, buf, download, response, timer>>
    /\ SvcFrame

\* processTablesInDocument after its zip work: the numbered file is
\* written; mergeDocuments removes the temporary file and resolves; the
\* handler calls res.download
WriteNumbered(r) ==
    /\ pc[r] = "numbering"
    /\ IF fault[r] = "number"
       THEN Respond(r, "500") /\ UNCHANGED fs
       ELSE /\ fs' = [fs EXCEPT
                        ![<<outputPath>>] = Content(buf[r].owner, "numbered"),
                        ![<<tempOutputPath>>] = NoFile]
            /\ pc' = [pc EXCEPT ![r] = "sending"]
            /\ UNCHANGED response
    /\ UNCHANGED <<buf, download, timer>>
    /\ SvcFrame

\* res.download reads the file at outputPath and streams it
SendFile(r) ==
    /\ pc[r] = "sending"
    /\ IF fs[<<outputPath>>] = NoFile
       THEN Respond(r, "500") /\ UNCHANGED download
       ELSE /\ download' = [download EXCEPT ![r] = fs[<<outputPath>>]]
            /\ pc' = [pc EXCEPT ![r] = "sent"]
            /\ UNCHANGED response
    /\ UNCHANGED <<fs, buf, timer>>
    /\ SvcFrame

\* the callback of res.download: on an error a 500, otherwise the uploads
\* are removed and the removal of the output is scheduled
DownloadDone(r) ==
    /\ pc[r] = "sent"
    /\ \/ /\ Respond(r, "500")
          /\ UNCHANGED <<fs, timer>>
       \/ /\ Respond(r, "200")
          /\ fs' = cleanupFiles(fs, {uploadPath[r]})
          /\ timer' = [timer EXCEPT ![r] = "armed"]
    /\ UNCHANGED <<buf, download>>
    /\ SvcFrame

\* setTimeout(() => cleanupFiles([outputPath]), 30000)
TimerFires(r) ==
    /\ timer[r] = "armed"
    /\ timer' = [timer EXCEPT ![r] = "fired"]
    /\ fs' = cleanupFiles(fs, {<<outputPath>>})
    /\ UNCHANGED <<pc, buf, download, response>>
    /\ SvcFrame

NextSvc ==
    \E r \in Requests :
        \/ Upload(r)
        \/ StartMerge(r)
        \/ WriteTemp(r)
        \/ WriteTemplated(r)
        \/ WriteNumbered(r)
        \/ SendFile(r)
        \/ DownloadDone(r)
        \/ TimerFires(r)

SpecSvc == InitSvc /\ [][NextSvc]_vars

---------------------------------------------------------------------------
(* Claims about the service, checked under SpecSvc *)

\* C10: isolation.  Whatever the interleaving of two requests, what a
\* request downloads is the merged, templated and numbered package made of
\* its own documents.
C10_Isolation ==
    \A r \in Requests :
        download[r] # NoFile => download[r] = Content(r, "numbered")

\* the request ended in failure inside mergeDocuments: no documents, no
\* template, or a stage that threw
MergeFailed(r) ==
    /\ pc[r] = "done"
    /\ response[r] # "200"
    /\ download[r] = NoFile
    /\ \/ ~hasFiles[r]
       \/ ~templateExists
       \/ fault[r] # "none"

\* C11: all-or-nothing output.  When a request has failed at the input
\* checks, the merge, the template application or the table numbering, the
\* file at the final output path, if there is one, was not written by that
\* request.
C11_AllOrNothing ==
    \A r \in Requests :
        MergeFailed(r) => fs[<<outputPath>>].owner # r

---------------------------------------------------------------------------
(* Further claims about the Template Applier, checked under SpecTpl *)

\* C12: a combined package without word/document.xml is fatal.  When the
\* combined package has no word/document.xml, applyTemplate does not get to
\* serialize and write an output package.
C12_MissingDocumentFatal ==
    DOCUMENT_XML \notin DOMAIN mergedZip => tplPc # "written"

\* the parts the style step takes from the template, and those it keeps
TransplantedPaths ==
    {"word/styles.xml", "word/fontTable.xml", "word/theme/theme1.xml"}
KeptPaths == {"[Content_Types].xml", "word/settings.xml"}

\* the style step has just run
StylesRan == tplPc = "styles"

---------------------------------------------------------------------------
(* Further claims about the service, checked under SpecSvc *)

\* request r enters stage to with this step
Enters(r, to) == pc[r] # to /\ pc'[r] = to

\* C14: orchestration order.  For every request, template application
\* starts from the stage where the merged body is being saved, with the
\* merged body of this request written to the temporary file and read back;
\* table numbering starts from template application, with the templated
\* package of this request written to the output path and read back;
\* mergeDocuments resolves only from table numbering, with the numbered
\* package of this request written to the output path.
C14_OrchestrationOrder ==
    [][\A r \in Requests :
        /\ Enters(r, "saving") =>
                /\ pc[r] = "received"
                /\ buf'[r] = Content(r, "merged")
        /\ Enters(r, "applying") =>
                /\ pc[r] = "saving"
                /\ fs'[<<tempOutputPath>>] = Content(r, "merged")
                /\ buf'[r] = Content(r, "merged")
        /\ Enters(r, "numbering") =>
                /\ pc[r] = "applying"
                /\ fs'[<<outputPath>>] = Content(r, "templated")
                /\ buf'[r] = Content(r, "templated")
        /\ Enters(r, "sending") =>
                /\ pc[r] = "numbering"
                /\ fs'[<<outputPath>>] = Content(r, "numbered")]_vars

\* C14, witness: a request whose mergeDocuments has resolved, with its
\* numbered package at the output path and the temporary file removed.
C14_Witness ==
    \E r \in Requests :
        /\ pc[r] = "sending"
        /\ fs[<<outputPath>>] = Content(r, "numbered")
        /\ fs[<<tempOutputPath>>] = NoFile

\* everything request r can do
RequestStep(r) ==
    \/ Upload(r)
    \/ StartMerge(r)
    \/ WriteTemp(r)
    \/ WriteTemplated(r)
    \/ WriteNumbered(r)
    \/ SendFile(r)
    \/ DownloadDone(r)
    \/ TimerFires(r)

\* the event loop runs every callback that is pending: no request waits
\* forever with a step it can take
SpecSvcFair == SpecSvc /\ \A r \in Requests : WF_vars(RequestStep(r))

\* C15: service cleanup.  Once a request has been received with uploaded
\* files, its uploaded files are eventually removed, however the response
\* completes.
C15_UploadsRemoved ==
    \A r \in Requests :
        (pc[r] = "received" /\ hasFiles[r]) ~> (fs[uploadPath[r]] = NoFile)

\* C16: the delayed cleanup of one request spares the output of another.
\* When the timer of request a fires while the output path holds the
\* numbered package of another request b whose download has not completed,
\* the file is still there afterwards.
C16_TimerSparesOtherOutput ==
    [][\A a \in Requests : \A b \in Requests \ {a} :
        (/\ timer[a] = "armed"
         /\ timer'[a] = "fired"
         /\ fs[<<outputPath>>] = Content(b, "numbered")
         /\ pc[b] \in {"sending", "sent"})
            => fs'[<<outputPath>>] = fs[<<outputPath>>]]_vars

=============================================================================
